---- MODULE Spec2Model ----
(***************************************************************************)
(* The v2 request path of the etcd server: EtcdServer.Do, RequestV2.Handle *)
(* and reqV2HandlerEtcdServer.processRaftRequest, together with the        *)
(* Pending-Call Table (wait.Wait), the consensus layer and the apply task  *)
(* that they talk to.                                                      *)
(***************************************************************************)
EXTENDS Naturals, Sequences, FiniteSets

(* ------------------------------ bounds --------------------------------- *)
\* number of calls of Do made during a run (one per caller goroutine)
MaxCalls == 2

Calls == 1 .. MaxCalls
IDs == 1 .. MaxCalls
NoID == 0
NoCall == 0

(* --------------------------- request values ---------------------------- *)
\* the six methods Handle knows, and one it does not
KnownMethods == {"POST", "PUT", "DELETE", "QGET", "GET", "HEAD"}
Methods == KnownMethods \cup {"PATCH"}

\* pb.Request as far as Do, Handle and the handlers read it
Requests == [Method : Methods, Quorum : BOOLEAN, Wait : BOOLEAN]

(* --------------------------- response values --------------------------- *)
\* Response{}: the zero value
EmptyResponse ==
    [Event |-> "none", Watcher |-> "none", Err |-> "nil"]

\* what the apply task can hand to Trigger for a committed v2 request: the
\* executed command's event, or its deterministic failure in Err
ApplyResults ==
    { [EmptyResponse EXCEPT !.Event = "ev"],
      [EmptyResponse EXCEPT !.Err = "ErrKeyExists"] }

\* the nil interface value the cancellation branch passes to Trigger
NilValue == [nil |-> TRUE]

\* a call that has not returned
NoReturn == [resp |-> EmptyResponse, err |-> "unset"]

\* context.Context.Err()
CtxErrs == {"Canceled", "DeadlineExceeded"}

VARIABLES
    reqIDGen,   \* s.reqIDGen: the last id handed out
    w,          \* s.w: the ids that have a slot in the Pending-Call Table
    ch,         \* the buffered channel (capacity 1) Register returned for each id
    sent,       \* history: the values ever sent on each id's channel, in order
    fault,      \* a goroutine panicked (duplicate Register, bad type assertion)
    proposed,   \* ids of the entries handed to raft and not yet committed
    committed,  \* ids of the committed entries, in commit order
    applied,    \* how many committed entries the apply task has processed
    notified,   \* history: the result the apply task triggered for each id
    stopping,   \* s.stopping is closed
    pc,         \* where each call of Do is
    reqID,      \* r.ID of each call
    via,        \* history: the path each call took out of Handle
    ctxErr,     \* ctx.Err() of each call's context
    hret,       \* what Handle returned to Do in each call
    dispatch,   \* the dispatch made by the step that led here, if it was a Do
    ver,        \* package verify: the call made, what it was given and how it ended
    grpc        \* package v3rpc: the error togRPCError was given and what it returned

vars == <<reqIDGen, w, ch, sent, fault, proposed, committed, applied, notified,
          stopping, pc, reqID, via, ctxErr, hret, dispatch, ver, grpc>>

waitVars == <<w, ch, sent>>
raftVars == <<proposed, committed, applied, notified>>

NoDispatch ==
    [call |-> NoCall, ID |-> NoID, arg |-> [Method |-> "", Quorum |-> FALSE, Wait |-> FALSE],
     Method |-> "", handler |-> "none", storeOp |-> "none"]

\* no function of package verify has been called
NoVerify == [entry |-> "none"]

\* togRPCError has not been called
NoRPC == [called |-> FALSE]

Init ==
    /\ reqIDGen = 0
    /\ w = {}
    /\ ch = [i \in IDs |-> <<>>]
    /\ sent = [i \in IDs |-> <<>>]
    /\ fault = FALSE
    /\ proposed = {}
    /\ committed = <<>>
    /\ applied = 0
    /\ notified = [i \in IDs |-> NilValue]
    /\ stopping = FALSE
    /\ pc = [c \in Calls |-> "idle"]
    /\ reqID = [c \in Calls |-> NoID]
    /\ via = [c \in Calls |-> "none"]
    /\ ctxErr = [c \in Calls |-> "nil"]
    /\ hret = [c \in Calls |-> NoReturn]
    /\ dispatch = NoDispatch
    /\ ver = NoVerify
    /\ grpc = NoRPC

(* ------------------------- Pending-Call Table -------------------------- *)
\* the capacity of the channel of a slot
ChanCap == 1

\* wait.Register(id): a new slot with a channel of capacity 1; a duplicate
\* id panics
Register(id) ==
    IF id \in w
    THEN /\ fault' = TRUE
         /\ UNCHANGED waitVars
    ELSE /\ w' = w \cup {id}
         /\ ch' = [ch EXCEPT ![id] = <<>>]
         /\ UNCHANGED <<sent, fault>>

\* wait.Trigger(id, x): removes the slot of id and puts x on its channel,
\* which blocks while the channel is full; without a slot it does nothing
Trigger(id, x) ==
    IF id \in w
    THEN /\ Len(ch[id]) < ChanCap
         /\ w' = w \ {id}
         /\ ch' = [ch EXCEPT ![id] = Append(@, x)]
         /\ sent' = [sent EXCEPT ![id] = Append(@, x)]
    ELSE UNCHANGED waitVars

(* ----------------------------- Do, Handle ------------------------------ *)
\* the call c gets r back from Handle; Do hands it on to its caller with
\* s.Term() and s.CommittedIndex() written into the response
Return(c, r) ==
    /\ pc' = [pc EXCEPT ![c] = "done"]
    /\ hret' = [hret EXCEPT ![c] = r]

\* Rewrite with the test of the method left out
RewriteAnyQuorum(method, quorum) ==
    IF quorum THEN "QGET" ELSE method

\* if r.Method == "GET" && r.Quorum { r.Method = "QGET" }
Rewrite(method, quorum) ==
    IF method = "GET" /\ quorum THEN "QGET" ELSE method

\* Route with the GET case calling v2api.QGet
RouteGetAsQGet(method) ==
    CASE method = "POST" -> "Post"
      [] method = "PUT" -> "Put"
      [] method = "DELETE" -> "Delete"
      [] method = "QGET" -> "QGet"
      [] method = "GET" -> "QGet"
      [] method = "HEAD" -> "Head"
      [] OTHER -> "none"

\* Route with a default case that reads the store
RouteDefaultGet(method) ==
    CASE method = "POST" -> "Post"
      [] method = "PUT" -> "Put"
      [] method = "DELETE" -> "Delete"
      [] method = "QGET" -> "QGet"
      [] method = "HEAD" -> "Head"
      [] OTHER -> "Get"

\* switch r.Method: the v2api method invoked, or none
Route(method) ==
    CASE method = "POST" -> "Post"
      [] method = "PUT" -> "Put"
      [] method = "DELETE" -> "Delete"
      [] method = "QGET" -> "QGet"
      [] method = "GET" -> "Get"
      [] method = "HEAD" -> "Head"
      [] OTHER -> "none"

(* ------------------------- reqV2HandlerStore --------------------------- *)
\* v2store.Store.Get / Watch: an event or a watcher, or an error
StoreResults(field, value) ==
    { [resp |-> [EmptyResponse EXCEPT ![field] = value], err |-> "nil"],
      [resp |-> EmptyResponse, err |-> "ErrKeyNotFound"] }

\* reqV2HandlerStore.Get: a watch on the store when r.Wait, else a read
Get(c, id, r) ==
    /\ via' = [via EXCEPT ![c] = "store"]
    /\ dispatch' = [call |-> c, ID |-> id, arg |-> r, Method |-> "GET", handler |-> "Get",
                    storeOp |-> IF r.Wait THEN "Watch" ELSE "Get"]
    /\ \E x \in StoreResults(IF r.Wait THEN "Watcher" ELSE "Event",
                             IF r.Wait THEN "wc" ELSE "ev") : Return(c, x)
    /\ UNCHANGED <<waitVars, fault, raftVars>>

\* reqV2HandlerStore.Head: a read of the store
HeadStore(c, id, r) ==
    /\ via' = [via EXCEPT ![c] = "store"]
    /\ dispatch' = [call |-> c, ID |-> id, arg |-> r, Method |-> "HEAD",
                    handler |-> "Head", storeOp |-> "Get"]
    /\ \E x \in StoreResults("Event", "ev") : Return(c, x)
    /\ UNCHANGED <<waitVars, fault, raftVars>>

(* ----------------------- reqV2HandlerEtcdServer ------------------------ *)
\* processRaftRequest handing the command to raft before it registers
processRaftRequestProposeFirst(c, id, r) ==
    /\ via' = [via EXCEPT ![c] = "processRaftRequest"]
    /\ \/ /\ Return(c, [resp |-> EmptyResponse, err |-> "ErrMarshal"])
          /\ UNCHANGED proposed
       \/ /\ proposed' = proposed \cup {id}
          /\ pc' = [pc EXCEPT ![c] = "propose"]
          /\ UNCHANGED hret
    /\ UNCHANGED <<waitVars, fault, committed, applied, notified>>

\* processRaftRequest calling Register before Marshal
processRaftRequestRegisterFirst(c, id, r) ==
    /\ via' = [via EXCEPT ![c] = "processRaftRequest"]
    /\ Register(id)
    /\ \/ /\ id \notin w
          /\ Return(c, [resp |-> EmptyResponse, err |-> "ErrMarshal"])
       \/ /\ pc' = [pc EXCEPT ![c] = IF id \in w THEN "panicked" ELSE "propose"]
          /\ UNCHANGED hret
    /\ UNCHANGED raftVars

\* processRaftRequest up to the proposal: Marshal, then Register(r.ID)
processRaftRequest(c, id, r) ==
    /\ via' = [via EXCEPT ![c] = "processRaftRequest"]
    /\ \/ /\ Return(c, [resp |-> EmptyResponse, err |-> "ErrMarshal"])
          /\ UNCHANGED <<waitVars, fault>>
       \/ /\ Register(id)
          /\ pc' = [pc EXCEPT ![c] = IF id \in w THEN "panicked" ELSE "propose"]
          /\ UNCHANGED hret
    /\ UNCHANGED raftVars

\* Post, Put, Delete and QGet of reqV2HandlerEtcdServer
RaftHandler(c, id, r, m, h) ==
    /\ dispatch' = [call |-> c, ID |-> id, arg |-> r, Method |-> m, handler |-> h,
                    storeOp |-> "none"]
    /\ processRaftRequest(c, id, r)

\* return Response{}, ErrUnknownMethod
UnknownMethod(c, id, r, m) ==
    /\ via' = [via EXCEPT ![c] = "unknown"]
    /\ dispatch' = [call |-> c, ID |-> id, arg |-> r, Method |-> m, handler |-> "none",
                    storeOp |-> "none"]
    /\ Return(c, [resp |-> EmptyResponse, err |-> "ErrUnknownMethod"])
    /\ UNCHANGED <<waitVars, fault, raftVars>>

\* RequestV2.Handle: rewrite the method, then call the v2api method it names
Handle(c, id, r) ==
    LET m == Rewrite(r.Method, r.Quorum)
        h == Route(m)
    IN  CASE h \in {"Post", "Put", "Delete", "QGet"} -> RaftHandler(c, id, r, m, h)
          [] h = "Get" -> Get(c, id, r)
          [] h = "Head" -> HeadStore(c, id, r)
          [] OTHER -> UnknownMethod(c, id, r, m)

\* s.reqIDGen.Next()
NextID == reqIDGen + 1

\* Do without r.ID = s.reqIDGen.Next(): the request keeps the ID it came with
DoKeepID(c) ==
    /\ pc[c] = "idle"
    /\ \A d \in Calls : d < c => pc[d] # "idle"
    /\ \E r \in Requests, id \in IDs :
          /\ reqID' = [reqID EXCEPT ![c] = id]
          /\ Handle(c, id, r)
    /\ UNCHANGED <<reqIDGen, stopping, ctxErr, ver, grpc>>

\* EtcdServer.Do: a fresh id, then Handle on the etcd-server handler
Do(c) ==
    /\ pc[c] = "idle"
    /\ \A d \in Calls : d < c => pc[d] # "idle"
    /\ \E r \in Requests :
          /\ reqIDGen' = NextID
          /\ reqID' = [reqID EXCEPT ![c] = NextID]
          /\ Handle(c, NextID, r)
    /\ UNCHANGED <<stopping, ctxErr, ver, grpc>>

\* a.s.r.Propose(ctx, data): best effort, the result is ignored
Propose(c) ==
    /\ pc[c] = "propose"
    /\ \/ proposed' = proposed \cup {reqID[c]}
       \/ UNCHANGED proposed
    /\ pc' = [pc EXCEPT ![c] = "select"]
    /\ dispatch' = NoDispatch
    /\ UNCHANGED <<ver, grpc>>
    /\ UNCHANGED <<reqIDGen, waitVars, fault, committed, applied, notified, stopping,
                   reqID, via, ctxErr, hret>>

\* s.parseProposeCtxErr(ctx.Err(), start): the kind of the context error,
\* refined by what the consensus layer saw since start
parseProposeCtxErr(err, leaderFail, connLost) ==
    CASE err = "Canceled" -> "ErrCanceled"
      [] err = "DeadlineExceeded" /\ leaderFail -> "ErrTimeoutDueToLeaderFail"
      [] err = "DeadlineExceeded" /\ ~leaderFail /\ connLost ->
             "ErrTimeoutDueToConnectionLost"
      [] OTHER -> "ErrTimeout"

\* Delivered returning resp, nil
DeliveredDropErr(c) ==
    /\ pc[c] = "select"
    /\ ch[reqID[c]] # <<>>
    /\ LET x == Head(ch[reqID[c]])
       IN  /\ ch' = [ch EXCEPT ![reqID[c]] = Tail(@)]
           /\ IF x = NilValue
              THEN /\ fault' = TRUE
                   /\ pc' = [pc EXCEPT ![c] = "panicked"]
                   /\ UNCHANGED hret
              ELSE /\ Return(c, [resp |-> x, err |-> "nil"])
                   /\ UNCHANGED fault
    /\ dispatch' = NoDispatch
    /\ UNCHANGED <<ver, grpc>>
    /\ UNCHANGED <<reqIDGen, w, sent, raftVars, stopping, reqID, via, ctxErr>>

\* case x := <-ch: resp := x.(Response); return resp, resp.Err
Delivered(c) ==
    /\ pc[c] = "select"
    /\ ch[reqID[c]] # <<>>
    /\ LET x == Head(ch[reqID[c]])
       IN  /\ ch' = [ch EXCEPT ![reqID[c]] = Tail(@)]
           /\ IF x = NilValue
              THEN /\ fault' = TRUE
                   /\ pc' = [pc EXCEPT ![c] = "panicked"]
                   /\ UNCHANGED hret
              ELSE /\ Return(c, [resp |-> x, err |-> x.Err])
                   /\ UNCHANGED fault
    /\ dispatch' = NoDispatch
    /\ UNCHANGED <<ver, grpc>>
    /\ UNCHANGED <<reqIDGen, w, sent, raftVars, stopping, reqID, via, ctxErr>>

\* CtxDone returning ctx.Err() as it is
CtxDoneRawErr(c) ==
    /\ pc[c] = "select"
    /\ ctxErr[c] # "nil"
    /\ Trigger(reqID[c], NilValue)
    /\ Return(c, [resp |-> EmptyResponse, err |-> ctxErr[c]])
    /\ dispatch' = NoDispatch
    /\ UNCHANGED <<ver, grpc>>
    /\ UNCHANGED <<reqIDGen, fault, raftVars, stopping, reqID, via, ctxErr>>

\* CtxDone sending nil on its channel itself (ch <- nil) instead of Trigger
CtxDoneDirectSend(c) ==
    /\ pc[c] = "select"
    /\ ctxErr[c] # "nil"
    /\ Len(ch[reqID[c]]) < 1
    /\ ch' = [ch EXCEPT ![reqID[c]] = Append(@, NilValue)]
    /\ sent' = [sent EXCEPT ![reqID[c]] = Append(@, NilValue)]
    /\ UNCHANGED w
    /\ \E leaderFail, connLost \in BOOLEAN :
          Return(c, [resp |-> EmptyResponse,
                     err |-> parseProposeCtxErr(ctxErr[c], leaderFail, connLost)])
    /\ dispatch' = NoDispatch
    /\ UNCHANGED <<ver, grpc>>
    /\ UNCHANGED <<reqIDGen, fault, raftVars, stopping, reqID, via, ctxErr>>

\* CtxDone without the Trigger
CtxDoneNoRetire(c) ==
    /\ pc[c] = "select"
    /\ ctxErr[c] # "nil"
    /\ UNCHANGED waitVars
    /\ \E leaderFail, connLost \in BOOLEAN :
          Return(c, [resp |-> EmptyResponse,
                     err |-> parseProposeCtxErr(ctxErr[c], leaderFail, connLost)])
    /\ dispatch' = NoDispatch
    /\ UNCHANGED <<ver, grpc>>
    /\ UNCHANGED <<reqIDGen, fault, raftVars, stopping, reqID, via, ctxErr>>

\* CtxDone with the Trigger made only when the error is a plain timeout
CtxDoneRetireOnTimeout(c) ==
    /\ pc[c] = "select"
    /\ ctxErr[c] # "nil"
    /\ \E leaderFail, connLost \in BOOLEAN :
          LET e == parseProposeCtxErr(ctxErr[c], leaderFail, connLost)
          IN  /\ IF e = "ErrTimeout"
                 THEN Trigger(reqID[c], NilValue)
                 ELSE UNCHANGED waitVars
              /\ Return(c, [resp |-> EmptyResponse, err |-> e])
    /\ dispatch' = NoDispatch
    /\ UNCHANGED <<ver, grpc>>
    /\ UNCHANGED <<reqIDGen, fault, raftVars, stopping, reqID, via, ctxErr>>

\* CtxDone going back to the select after the Trigger instead of returning
CtxDoneKeepWaiting(c) ==
    /\ pc[c] = "select"
    /\ ctxErr[c] # "nil"
    /\ Trigger(reqID[c], NilValue)
    /\ dispatch' = NoDispatch
    /\ UNCHANGED <<ver, grpc>>
    /\ UNCHANGED <<reqIDGen, fault, raftVars, stopping, pc, reqID, via, ctxErr, hret>>

\* case <-ctx.Done(): Trigger(r.ID, nil); return Response{}, parseProposeCtxErr
CtxDone(c) ==
    /\ pc[c] = "select"
    /\ ctxErr[c] # "nil"
    /\ Trigger(reqID[c], NilValue)
    /\ \E leaderFail, connLost \in BOOLEAN :
          Return(c, [resp |-> EmptyResponse,
                     err |-> parseProposeCtxErr(ctxErr[c], leaderFail, connLost)])
    /\ dispatch' = NoDispatch
    /\ UNCHANGED <<ver, grpc>>
    /\ UNCHANGED <<reqIDGen, fault, raftVars, stopping, reqID, via, ctxErr>>

\* Stopping returning Response{}, nil
StoppingNilErr(c) ==
    /\ pc[c] = "select"
    /\ stopping
    /\ Return(c, [resp |-> EmptyResponse, err |-> "nil"])
    /\ dispatch' = NoDispatch
    /\ UNCHANGED <<ver, grpc>>
    /\ UNCHANGED <<reqIDGen, waitVars, fault, raftVars, stopping, reqID, via, ctxErr>>

\* Stopping retiring the slot as the cancellation branch does
StoppingRetire(c) ==
    /\ pc[c] = "select"
    /\ stopping
    /\ Trigger(reqID[c], NilValue)
    /\ Return(c, [resp |-> EmptyResponse, err |-> "ErrStopped"])
    /\ dispatch' = NoDispatch
    /\ UNCHANGED <<ver, grpc>>
    /\ UNCHANGED <<reqIDGen, fault, raftVars, stopping, reqID, via, ctxErr>>

\* Stopping taking the signal off s.stopping, as a value sent once would be
StoppingConsumes(c) ==
    /\ pc[c] = "select"
    /\ stopping
    /\ stopping' = FALSE
    /\ Return(c, [resp |-> EmptyResponse, err |-> "ErrStopped"])
    /\ dispatch' = NoDispatch
    /\ UNCHANGED <<ver, grpc>>
    /\ UNCHANGED <<reqIDGen, waitVars, fault, raftVars, reqID, via, ctxErr>>

\* case <-a.s.stopping: return Response{}, ErrStopped
Stopping(c) ==
    /\ pc[c] = "select"
    /\ stopping
    /\ Return(c, [resp |-> EmptyResponse, err |-> "ErrStopped"])
    /\ dispatch' = NoDispatch
    /\ UNCHANGED <<ver, grpc>>
    /\ UNCHANGED <<reqIDGen, waitVars, fault, raftVars, stopping, reqID, via, ctxErr>>

(* --------------------------- the environment --------------------------- *)
\* the caller cancels the context, or its deadline expires
Cancel(c) ==
    /\ pc[c] \in {"propose", "select"}
    /\ ctxErr[c] = "nil"
    /\ \E e \in CtxErrs : ctxErr' = [ctxErr EXCEPT ![c] = e]
    /\ dispatch' = NoDispatch
    /\ UNCHANGED <<ver, grpc>>
    /\ UNCHANGED <<reqIDGen, waitVars, fault, raftVars, stopping, pc, reqID, via, hret>>

\* the server closes s.stopping
Stop ==
    /\ ~stopping
    /\ stopping' = TRUE
    /\ dispatch' = NoDispatch
    /\ UNCHANGED <<ver, grpc>>
    /\ UNCHANGED <<reqIDGen, waitVars, fault, raftVars, pc, reqID, via, ctxErr, hret>>

\* consensus commits a proposed entry
Commit ==
    /\ \E id \in proposed :
          /\ proposed' = proposed \ {id}
          /\ committed' = Append(committed, id)
    /\ dispatch' = NoDispatch
    /\ UNCHANGED <<ver, grpc>>
    /\ UNCHANGED <<reqIDGen, waitVars, fault, applied, notified, stopping, pc, reqID,
                   via, ctxErr, hret>>

\* the apply task executes the next committed entry and triggers its result
Apply ==
    /\ applied < Len(committed)
    /\ LET id == committed[applied + 1]
       IN  \E x \in ApplyResults :
              /\ Trigger(id, x)
              /\ notified' = [notified EXCEPT ![id] = x]
    /\ applied' = applied + 1
    /\ dispatch' = NoDispatch
    /\ UNCHANGED <<ver, grpc>>
    /\ UNCHANGED <<reqIDGen, fault, proposed, committed, stopping, pc, reqID, via,
                   ctxErr, hret>>

Next ==
    \/ \E c \in Calls : Do(c)
    \/ \E c \in Calls : Propose(c)
    \/ \E c \in Calls : Delivered(c)
    \/ \E c \in Calls : CtxDone(c)
    \/ \E c \in Calls : Stopping(c)
    \/ \E c \in Calls : Cancel(c)
    \/ Stop
    \/ Commit
    \/ Apply

Spec == Init /\ [][Next]_vars

\* the select of processRaftRequest: whichever of its three cases is ready
Select(c) == Delivered(c) \/ CtxDone(c) \/ Stopping(c)

\* the schedule: a caller goroutine that can take its next step takes it
\* (Propose returns; a select with a ready case proceeds), and the apply task
\* goes on with the next committed entry; nothing makes raft commit, a context
\* end or the server stop
SpecFair ==
    /\ Spec
    /\ \A c \in Calls : WF_vars(Propose(c)) /\ WF_vars(Select(c))
    /\ WF_vars(Apply)

(* --------------------------- package verify ---------------------------- *)
\* the largest index (consistent index, commit, snapshot index) of a run
MaxIndex == 2
\* the largest term (backend term, hard-state term) of a run
MaxTerm == 1
\* the most snapshot entries a scan of the WAL returns
MaxSnaps == 2

Indexes == 0 .. MaxIndex
Terms == 0 .. MaxTerm

\* ENV_VERIFY_ALL_VALUE, and the others: the variable unset, or set otherwise
Envs == {"all", "", "off"}

\* a nil error, and the errors of the two functions of package wal
NilError == [kind |-> "nil", got |-> 0, want |-> 0]
ErrScan == [kind |-> "ValidSnapshotEntries failed", got |-> 0, want |-> 0]
ErrWalVerify == [kind |-> "wal.Verify failed", got |-> 0, want |-> 0]

\* sequences over S of a length up to n
SeqsUpTo(S, n) == UNION {[1 .. k -> S] : k \in 0 .. n}

\* walpb.Snapshot and raftpb.HardState as far as they are read
Snapshots == [Index : Indexes]
HardStates == [Commit : Indexes, Term : Terms]

\* wal2.ValidSnapshotEntries: an error, or the valid snapshot entries of the
\* WAL in the order they were written, which may be none
ScanResults ==
    {[err |-> ErrScan, snaps |-> <<>>]} \cup
    {[err |-> NilError, snaps |-> s] :
        s \in {t \in SeqsUpTo(Snapshots, MaxSnaps) :
                  \A i, j \in DOMAIN t : i < j => t[i].Index <= t[j].Index}}

\* wal2.Verify: an error, or the hard state it read
WalVerifyResults ==
    {[err |-> ErrWalVerify, hardstate |-> [Commit |-> 0, Term |-> 0]]} \cup
    {[err |-> NilError, hardstate |-> h] : h \in HardStates}

\* what a call is given: the environment, cfg, and what the WAL and the
\* backend of cfg.DataDir hold
VerifyInputs ==
    [env : Envs, ExactIndex : BOOLEAN, scan : ScanResults,
     walVerify : WalVerifyResults, index : Indexes, term : Terms]

\* validateConsistentIndex with the test against the snapshot made with <=
validateConsistentIndexSnapLeq(ExactIndex, index, term, hardstate, snapshot) ==
    IF ExactIndex /\ index # hardstate.Commit
    THEN [kind |-> "ConsistentIndex expected == commit",
          got |-> index, want |-> hardstate.Commit]
    ELSE IF ExactIndex /\ term # hardstate.Term
    THEN [kind |-> "Term expected == term", got |-> term, want |-> hardstate.Term]
    ELSE IF index > hardstate.Commit
    THEN [kind |-> "ConsistentIndex must be <= commit",
          got |-> index, want |-> hardstate.Commit]
    ELSE IF term > hardstate.Term
    THEN [kind |-> "Term must be <= term", got |-> term, want |-> hardstate.Term]
    ELSE IF index <= snapshot.Index
    THEN [kind |-> "ConsistentIndex must be >= last snapshot index",
          got |-> index, want |-> snapshot.Index]
    ELSE NilError

\* validateConsistentIndex without the test term > hardstate.Term
validateConsistentIndexNoTermBound(ExactIndex, index, term, hardstate, snapshot) ==
    IF ExactIndex /\ index # hardstate.Commit
    THEN [kind |-> "ConsistentIndex expected == commit",
          got |-> index, want |-> hardstate.Commit]
    ELSE IF ExactIndex /\ term # hardstate.Term
    THEN [kind |-> "Term expected == term", got |-> term, want |-> hardstate.Term]
    ELSE IF index > hardstate.Commit
    THEN [kind |-> "ConsistentIndex must be <= commit",
          got |-> index, want |-> hardstate.Commit]
    ELSE IF index < snapshot.Index
    THEN [kind |-> "ConsistentIndex must be >= last snapshot index",
          got |-> index, want |-> snapshot.Index]
    ELSE NilError

\* validateConsistentIndex with the test against the snapshot made first
validateConsistentIndexSnapFirst(ExactIndex, index, term, hardstate, snapshot) ==
    IF index < snapshot.Index
    THEN [kind |-> "ConsistentIndex must be >= last snapshot index",
          got |-> index, want |-> snapshot.Index]
    ELSE IF ExactIndex /\ index # hardstate.Commit
    THEN [kind |-> "ConsistentIndex expected == commit",
          got |-> index, want |-> hardstate.Commit]
    ELSE IF ExactIndex /\ term # hardstate.Term
    THEN [kind |-> "Term expected == term", got |-> term, want |-> hardstate.Term]
    ELSE IF index > hardstate.Commit
    THEN [kind |-> "ConsistentIndex must be <= commit",
          got |-> index, want |-> hardstate.Commit]
    ELSE IF term > hardstate.Term
    THEN [kind |-> "Term must be <= term", got |-> term, want |-> hardstate.Term]
    ELSE NilError

\* validateConsistentIndex: index and term are what cindex.ReadConsistentIndex
\* read from the backend; the first test that fails makes the error
validateConsistentIndex(ExactIndex, index, term, hardstate, snapshot) ==
    IF ExactIndex /\ index # hardstate.Commit
    THEN [kind |-> "ConsistentIndex expected == commit",
          got |-> index, want |-> hardstate.Commit]
    ELSE IF ExactIndex /\ term # hardstate.Term
    THEN [kind |-> "Term expected == term", got |-> term, want |-> hardstate.Term]
    ELSE IF index > hardstate.Commit
    THEN [kind |-> "ConsistentIndex must be <= commit",
          got |-> index, want |-> hardstate.Commit]
    ELSE IF term > hardstate.Term
    THEN [kind |-> "Term must be <= term", got |-> term, want |-> hardstate.Term]
    ELSE IF index < snapshot.Index
    THEN [kind |-> "ConsistentIndex must be >= last snapshot index",
          got |-> index, want |-> snapshot.Index]
    ELSE NilError

\* validateWal: the last of the valid snapshot entries and the hard state
\* read up to it; walSnaps[len(walSnaps)-1] is out of range when there are none
validateWal(scan, walVerify) ==
    IF scan.err # NilError
    THEN [panic |-> FALSE, err |-> scan.err, snapshot |-> [Index |-> 0],
          hardstate |-> [Commit |-> 0, Term |-> 0]]
    ELSE IF Len(scan.snaps) = 0
    THEN [panic |-> TRUE, err |-> NilError, snapshot |-> [Index |-> 0],
          hardstate |-> [Commit |-> 0, Term |-> 0]]
    ELSE IF walVerify.err # NilError
    THEN [panic |-> FALSE, err |-> walVerify.err, snapshot |-> [Index |-> 0],
          hardstate |-> [Commit |-> 0, Term |-> 0]]
    ELSE [panic |-> FALSE, err |-> NilError, snapshot |-> scan.snaps[Len(scan.snaps)],
          hardstate |-> walVerify.hardstate]

\* the deferred function of Verify: what it logs, given the variable err of
\* Verify and whether recover() found a panic (which it raises again)
deferred(err, recovered) ==
    IF err # NilError THEN "verification of persisted state failed"
    ELSE IF recovered THEN "verification of persisted state failed"
    ELSE "verification of persisted state successful"

\* a function of the package that did nothing
NotRun ==
    [ret |-> NilError, panic |-> FALSE, log |-> <<>>, opened |-> FALSE,
     scanned |-> FALSE, compared |-> FALSE]

\* Verify: the variable err holds what validateWal returned; the result of
\* validateConsistentIndex is returned without being assigned to it
Verify(in) ==
    LET wal == validateWal(in.scan, in.walVerify)
        err == wal.err
        start == <<"verification of persisted state">>
        ran == [NotRun EXCEPT !.opened = TRUE, !.scanned = TRUE]
    IN  IF wal.panic
        THEN [ran EXCEPT !.panic = TRUE, !.log = Append(start, deferred(err, TRUE))]
        ELSE IF err # NilError
        THEN [ran EXCEPT !.ret = err, !.log = Append(start, deferred(err, FALSE))]
        ELSE LET e == validateConsistentIndex(in.ExactIndex, in.index, in.term,
                                              wal.hardstate, wal.snapshot)
                 ok == IF e = NilError
                       THEN <<"verification: consistentIndex OK">>
                       ELSE <<>>
             IN  [ran EXCEPT !.ret = e, !.compared = TRUE,
                             !.log = Append(start \o ok, deferred(err, FALSE))]

\* VerifyIfEnabled: Verify when ETCD_VERIFY is "all", else nil
VerifyIfEnabled(in) ==
    IF in.env = "all" THEN Verify(in) ELSE NotRun

\* how a call ends for the process, given what the function called came to
ExitOf(out, must) ==
    IF out.panic THEN "panic"
    ELSE IF must /\ out.ret # NilError THEN "fatal"
    ELSE "returned"

\* MustVerifyIfEnabled: cfg.Logger.Fatal on an error of VerifyIfEnabled
MustVerifyIfEnabled(in) ==
    LET out == VerifyIfEnabled(in)
    IN  IF ~out.panic /\ out.ret # NilError
        THEN [out EXCEPT !.log = Append(@, "Fatal")]
        ELSE out

reqVars == <<reqIDGen, w, ch, sent, fault, proposed, committed, applied, notified,
             stopping, pc, reqID, via, ctxErr, hret, dispatch>>

\* a call of Verify(cfg)
CallVerify ==
    /\ ver = NoVerify
    /\ \E in \in VerifyInputs :
          ver' = [entry |-> "Verify", in |-> in, out |-> Verify(in),
                  exit |-> ExitOf(Verify(in), FALSE)]
    /\ UNCHANGED <<reqVars, grpc>>

\* a call of VerifyIfEnabled(cfg)
CallVerifyIfEnabled ==
    /\ ver = NoVerify
    /\ \E in \in VerifyInputs :
          ver' = [entry |-> "VerifyIfEnabled", in |-> in, out |-> VerifyIfEnabled(in),
                  exit |-> ExitOf(VerifyIfEnabled(in), FALSE)]
    /\ UNCHANGED <<reqVars, grpc>>

\* a call of MustVerifyIfEnabled(cfg)
CallMustVerifyIfEnabled ==
    /\ ver = NoVerify
    /\ \E in \in VerifyInputs :
          ver' = [entry |-> "MustVerifyIfEnabled", in |-> in,
                  out |-> MustVerifyIfEnabled(in),
                  exit |-> ExitOf(MustVerifyIfEnabled(in), TRUE)]
    /\ UNCHANGED <<reqVars, grpc>>

NextVerify ==
    \/ CallVerify
    \/ CallVerifyIfEnabled
    \/ CallMustVerifyIfEnabled

SpecVerify == Init /\ [][NextVerify]_vars

(* ---------------------------- package v3rpc ---------------------------- *)
\* toGRPCErrorMap: each key with its entry
toGRPCErrorMap ==
    {
      <<"membership.ErrIDRemoved", "rpctypes.ErrGRPCMemberNotFound">>,
      <<"membership.ErrIDNotFound", "rpctypes.ErrGRPCMemberNotFound">>,
      <<"membership.ErrIDExists", "rpctypes.ErrGRPCMemberExist">>,
      <<"membership.ErrPeerURLexists", "rpctypes.ErrGRPCPeerURLExist">>,
      <<"membership.ErrMemberNotLearner", "rpctypes.ErrGRPCMemberNotLearner">>,
      <<"membership.ErrTooManyLearners", "rpctypes.ErrGRPCTooManyLearners">>,
      <<"etcdserver.ErrNotEnoughStartedMembers", "rpctypes.ErrMemberNotEnoughStarted">>,
      <<"etcdserver.ErrLearnerNotReady", "rpctypes.ErrGRPCLearnerNotReady">>,
      <<"mvcc.ErrCompacted", "rpctypes.ErrGRPCCompacted">>,
      <<"mvcc.ErrFutureRev", "rpctypes.ErrGRPCFutureRev">>,
      <<"etcdserver.ErrRequestTooLarge", "rpctypes.ErrGRPCRequestTooLarge">>,
      <<"etcdserver.ErrNoSpace", "rpctypes.ErrGRPCNoSpace">>,
      <<"etcdserver.ErrTooManyRequests", "rpctypes.ErrTooManyRequests">>,
      <<"etcdserver.ErrNoLeader", "rpctypes.ErrGRPCNoLeader">>,
      <<"etcdserver.ErrNotLeader", "rpctypes.ErrGRPCNotLeader">>,
      <<"etcdserver.ErrLeaderChanged", "rpctypes.ErrGRPCLeaderChanged">>,
      <<"etcdserver.ErrStopped", "rpctypes.ErrGRPCStopped">>,
      <<"etcdserver.ErrTimeout", "rpctypes.ErrGRPCTimeout">>,
      <<"etcdserver.ErrTimeoutDueToLeaderFail", "rpctypes.ErrGRPCTimeoutDueToLeaderFail">>,
      <<"etcdserver.ErrTimeoutDueToConnectionLost", "rpctypes.ErrGRPCTimeoutDueToConnectionLost">>,
      <<"etcdserver.ErrUnhealthy", "rpctypes.ErrGRPCUnhealthy">>,
      <<"etcdserver.ErrKeyNotFound", "rpctypes.ErrGRPCKeyNotFound">>,
      <<"etcdserver.ErrCorrupt", "rpctypes.ErrGRPCCorrupt">>,
      <<"etcdserver.ErrBadLeaderTransferee", "rpctypes.ErrGRPCBadLeaderTransferee">>,
      <<"etcdserver.ErrClusterVersionUnavailable", "rpctypes.ErrGRPCClusterVersionUnavailable">>,
      <<"etcdserver.ErrWrongDowngradeVersionFormat", "rpctypes.ErrGRPCWrongDowngradeVersionFormat">>,
      <<"etcdserver.ErrInvalidDowngradeTargetVersion", "rpctypes.ErrGRPCInvalidDowngradeTargetVersion">>,
      <<"etcdserver.ErrDowngradeInProcess", "rpctypes.ErrGRPCDowngradeInProcess">>,
      <<"etcdserver.ErrNoInflightDowngrade", "rpctypes.ErrGRPCNoInflightDowngrade">>,
      <<"lease.ErrLeaseNotFound", "rpctypes.ErrGRPCLeaseNotFound">>,
      <<"lease.ErrLeaseExists", "rpctypes.ErrGRPCLeaseExist">>,
      <<"lease.ErrLeaseTTLTooLarge", "rpctypes.ErrGRPCLeaseTTLTooLarge">>,
      <<"auth.ErrRootUserNotExist", "rpctypes.ErrGRPCRootUserNotExist">>,
      <<"auth.ErrRootRoleNotExist", "rpctypes.ErrGRPCRootRoleNotExist">>,
      <<"auth.ErrUserAlreadyExist", "rpctypes.ErrGRPCUserAlreadyExist">>,
      <<"auth.ErrUserEmpty", "rpctypes.ErrGRPCUserEmpty">>,
      <<"auth.ErrUserNotFound", "rpctypes.ErrGRPCUserNotFound">>,
      <<"auth.ErrRoleAlreadyExist", "rpctypes.ErrGRPCRoleAlreadyExist">>,
      <<"auth.ErrRoleNotFound", "rpctypes.ErrGRPCRoleNotFound">>,
      <<"auth.ErrRoleEmpty", "rpctypes.ErrGRPCRoleEmpty">>,
      <<"auth.ErrAuthFailed", "rpctypes.ErrGRPCAuthFailed">>,
      <<"auth.ErrPermissionNotGiven", "rpctypes.ErrGRPCPermissionNotGiven">>,
      <<"auth.ErrPermissionDenied", "rpctypes.ErrGRPCPermissionDenied">>,
      <<"auth.ErrRoleNotGranted", "rpctypes.ErrGRPCRoleNotGranted">>,
      <<"auth.ErrPermissionNotGranted", "rpctypes.ErrGRPCPermissionNotGranted">>,
      <<"auth.ErrAuthNotEnabled", "rpctypes.ErrGRPCAuthNotEnabled">>,
      <<"auth.ErrInvalidAuthToken", "rpctypes.ErrGRPCInvalidAuthToken">>,
      <<"auth.ErrInvalidAuthMgmt", "rpctypes.ErrGRPCInvalidAuthMgmt">>,
      <<"auth.ErrAuthOldRevision", "rpctypes.ErrGRPCAuthOldRevision">>,
      <<"context.Canceled", "rpctypes.ErrGRPCCanceled">>,
      <<"context.DeadlineExceeded", "rpctypes.ErrGRPCDeadlineExceeded">>
    }

\* the errors that are keys of toGRPCErrorMap
TableKeys == {p[1] : p \in toGRPCErrorMap}

\* errors of the server that are not keys of toGRPCErrorMap
OtherErrors == {"etcdserver.ErrUnknownMethod", "etcdserver.ErrCanceled", "io.EOF"}

\* an error value: the package-level variable itself, another value with the
\* same text, or an error wrapping it; only the first is equal to the variable
ErrorForms == {"sentinel", "copy", "wrapped"}
Errors == [name : TableKeys \cup OtherErrors, form : ErrorForms]

\* the package-level error variable of a name
Sentinel(name) == [name |-> name, form |-> "sentinel"]

\* err.Error()
ErrorText(err) ==
    IF err.form = "wrapped" THEN <<"wrapped", err.name>> ELSE <<err.name>>

\* the error value of package rpctypes of a name; two names, two values
WireError(name) == [wire |-> name]

\* toGRPCErrorMap[err]: the entry, and whether there is one
MapLookup(err) ==
    IF err.form = "sentinel" /\ err.name \in TableKeys
    THEN [ok |-> TRUE,
          grpcErr |-> WireError((CHOOSE p \in toGRPCErrorMap : p[1] = err.name)[2])]
    ELSE [ok |-> FALSE, grpcErr |-> WireError("nil")]

\* status.Error(codes.Unknown, msg)
StatusUnknown(msg) == [code |-> "Unknown", msg |-> msg]

\* togRPCError without the test for the errors of context
togRPCErrorNoContextTest(err) ==
    IF ~MapLookup(err).ok
    THEN StatusUnknown(ErrorText(err))
    ELSE MapLookup(err).grpcErr

\* togRPCError
togRPCError(err) ==
    IF err = Sentinel("context.Canceled") \/ err = Sentinel("context.DeadlineExceeded")
    THEN err
    ELSE IF ~MapLookup(err).ok
    THEN StatusUnknown(ErrorText(err))
    ELSE MapLookup(err).grpcErr

\* a call of togRPCError(err)
CalltogRPCError ==
    /\ ~grpc.called
    /\ \E err \in Errors :
          grpc' = [called |-> TRUE, err |-> err, out |-> togRPCError(err)]
    /\ UNCHANGED <<reqVars, ver>>

NextRPC == CalltogRPCError

SpecRPC == Init /\ [][NextRPC]_vars

(* ===================== the claims about the request path ================ *)
\* the calls that went into processRaftRequest and have come back
Returned(c) == via[c] = "processRaftRequest" /\ pc[c] = "done"

\* the errors parseProposeCtxErr can give for the context error e
ClassifiedAs(e) ==
    {parseProposeCtxErr(e, leaderFail, connLost) : leaderFail, connLost \in BOOLEAN}
Classified == UNION {ClassifiedAs(e) : e \in CtxErrs}

\* (a) the Response received on the call's own channel, with its Err
OutcomeDelivered(c) ==
    /\ sent[reqID[c]] # <<>>
    /\ ch[reqID[c]] = <<>>
    /\ hret[c].resp = sent[reqID[c]][1]
    /\ hret[c].resp # NilValue
    /\ hret[c].err = hret[c].resp.Err
\* (b) an empty Response with the classified context error
OutcomeCtx(c) ==
    /\ hret[c].resp = EmptyResponse
    /\ ctxErr[c] # "nil"
    /\ hret[c].err \in ClassifiedAs(ctxErr[c])
\* (c) an empty Response with ErrStopped
OutcomeStopped(c) ==
    /\ hret[c].resp = EmptyResponse
    /\ hret[c].err = "ErrStopped"
    /\ stopping
\* (d) an empty Response with the error of Marshal, nothing registered
OutcomeMarshal(c) ==
    /\ hret[c].resp = EmptyResponse
    /\ hret[c].err = "ErrMarshal"
    /\ sent[reqID[c]] = <<>>
    /\ reqID[c] \notin w

Count(a, b, c, d) ==
    (IF a THEN 1 ELSE 0) + (IF b THEN 1 ELSE 0) + (IF c THEN 1 ELSE 0)
        + (IF d THEN 1 ELSE 0)

\* C1 as stated: every call of processRaftRequest that has returned came back
\* with exactly one of (a) the delivered Response and its Err, (b) an empty
\* Response and the classified context error, (c) an empty Response and
\* ErrStopped.
C1_ExactlyOneOfThree ==
    \A c \in Calls :
        Returned(c) =>
            Count(OutcomeDelivered(c), OutcomeCtx(c), OutcomeStopped(c), FALSE) = 1

\* C1 as amended: every call of processRaftRequest that has returned came back
\* with exactly one of (a), (b), (c) or (d) an empty Response and the error of
\* Marshal, returned before anything was registered; and what a call returned
\* never changes afterwards.
C1_ExactlyOneOutcome ==
    /\ [](\A c \in Calls :
            Returned(c) =>
                Count(OutcomeDelivered(c), OutcomeCtx(c), OutcomeStopped(c),
                      OutcomeMarshal(c)) = 1)
    /\ [][\A c \in Calls :
            pc[c] = "done" => pc'[c] = "done" /\ hret'[c] = hret[c]]_vars

\* a call came back with the delivered Response although its context was done
\* and the server stopping
C1_Witness ==
    \E c \in Calls :
        Returned(c) /\ OutcomeDelivered(c) /\ ctxErr[c] # "nil" /\ stopping

\* C2: at most one value is ever put on the channel of an id; the trigger that
\* put it there removed the slot, and the slot stays removed whoever triggers
\* the id again; no trigger faults or blocks, the caller's on its cancellation
\* and the apply task's on the next committed entry; a call that returned
\* holds one outcome: the value delivered, or the error of its cancellation.
C2_AtMostOnce ==
    /\ ~fault
    /\ \A c \in Calls : pc[c] = "select" /\ ctxErr[c] # "nil" => ENABLED CtxDone(c)
    /\ applied < Len(committed) => ENABLED Apply
    /\ \A id \in IDs :
          /\ Len(sent[id]) <= 1
          /\ Len(ch[id]) <= Len(sent[id])
          /\ sent[id] # <<>> => id \notin w
    /\ \A c \in Calls :
          Returned(c) => ~(OutcomeDelivered(c) /\ OutcomeCtx(c))

\* both the caller and the apply task have triggered the same id
C2_Witness ==
    \E c \in Calls :
        /\ Returned(c)
        /\ OutcomeCtx(c)
        /\ notified[reqID[c]] # NilValue
        /\ Len(sent[reqID[c]]) = 1

\* C3 as stated: once a call of processRaftRequest has returned, the
\* Pending-Call Table has no entry for its id.
C3_NoLeak ==
    \A c \in Calls : Returned(c) => reqID[c] \notin w

\* C3 as amended: once a call of processRaftRequest has returned otherwise
\* than with ErrStopped, the Pending-Call Table has no entry for its id.
C3_NoLeakUnlessStopped ==
    \A c \in Calls :
        Returned(c) /\ hret[c].err # "ErrStopped" => reqID[c] \notin w

\* a call returned by cancellation before any delivery, and its slot is gone
C3_Witness ==
    \E c \in Calls :
        /\ Returned(c)
        /\ OutcomeCtx(c)
        /\ sent[reqID[c]] = <<NilValue>>
        /\ reqID[c] \notin w

\* the apply task has executed the committed entry of id and triggered it
AppliedAndTriggered(id) ==
    /\ \E k \in 1 .. applied : committed[k] = id
    /\ notified[id] \in ApplyResults

\* C4: a call of processRaftRequest that came back with a non-empty Response,
\* or without an error, came back with the value the apply task triggered for
\* its id, after the entry was committed and executed.
C4_ResultOnlyFromNotifier ==
    \A c \in Calls :
        Returned(c) /\ (hret[c].resp # EmptyResponse \/ hret[c].err = "nil") =>
            /\ AppliedAndTriggered(reqID[c])
            /\ hret[c].resp = notified[reqID[c]]

\* a call came back with the event of its executed command
C4_Witness ==
    \E c \in Calls :
        Returned(c) /\ hret[c].resp.Event = "ev" /\ hret[c].err = "nil"

\* C5: a call that returns by delivery returns the very Response the apply
\* task triggered for its own id, and that Response's Err as the error.
C5_DeliveredIsTriggered ==
    \A c \in Calls :
        Returned(c) /\ hret[c].err \notin Classified \cup {"ErrStopped", "ErrMarshal"} =>
            /\ notified[reqID[c]] \in ApplyResults
            /\ hret[c] = [resp |-> notified[reqID[c]], err |-> notified[reqID[c]].Err]

\* a call came back with the failure of its command while another call got a
\* different result
C5_Witness ==
    \E c, d \in Calls :
        /\ Returned(c) /\ Returned(d)
        /\ hret[c].err = "ErrKeyExists"
        /\ hret[c].resp.Err = "ErrKeyExists"
        /\ hret[d].resp.Event = "ev"

\* the apply task triggers id in this step
NotifierTriggers(id) ==
    applied' = applied + 1 /\ committed[applied + 1] = id

\* C6: a call that takes the cancellation branch before any trigger of its id
\* removes its slot, puts nil on its channel and returns an empty Response
\* with the classified error, whichever error that is; when the apply task
\* triggers the id of a call that returned by cancellation, nothing changes in
\* the table or the channels, nothing faults and no call's result changes.
C6_CancelRetires ==
    [][/\ \A c \in Calls :
             (/\ pc[c] = "select" /\ pc'[c] = "done"
              /\ sent[reqID[c]] = <<>>
              /\ ~(stopping /\ hret'[c].err = "ErrStopped")) =>
                 /\ reqID[c] \in w
                 /\ w' = w \ {reqID[c]}
                 /\ sent'[reqID[c]] = <<NilValue>>
                 /\ hret'[c].resp = EmptyResponse
                 /\ hret'[c].err \in ClassifiedAs(ctxErr[c])
       /\ \A c \in Calls :
             (/\ Returned(c) /\ hret[c].err \in Classified
              /\ NotifierTriggers(reqID[c])) =>
                 /\ UNCHANGED <<w, ch, sent, fault, hret>>
                 /\ ch[reqID[c]] = <<NilValue>>]_vars

\* the apply task triggered an id whose call had already retired the slot
C6_Witness ==
    \E c \in Calls :
        /\ Returned(c)
        /\ hret[c].err = "ErrTimeoutDueToLeaderFail"
        /\ sent[reqID[c]] = <<NilValue>>
        /\ notified[reqID[c]] \in ApplyResults

\* C7: a call that returns with ErrStopped returns an empty Response and
\* leaves the Pending-Call Table and the channels as they were; and when
\* s.stopping is the only thing ready, that is how the call returns.
C7_StoppedAbandons ==
    [][\A c \in Calls :
          /\ (pc[c] = "select" /\ pc'[c] = "done" /\ hret'[c].err = "ErrStopped") =>
                 /\ stopping
                 /\ hret'[c].resp = EmptyResponse
                 /\ UNCHANGED <<w, ch, sent>>
          /\ (/\ pc[c] = "select" /\ pc'[c] = "done"
              /\ ch[reqID[c]] = <<>> /\ ctxErr[c] = "nil") =>
                 /\ hret'[c] = [resp |-> EmptyResponse, err |-> "ErrStopped"]
                 /\ UNCHANGED <<w, ch, sent>>]_vars

\* a call returned with ErrStopped and its slot is still in the table
C7_Witness ==
    \E c \in Calls :
        Returned(c) /\ hret[c].err = "ErrStopped" /\ reqID[c] \in w

\* the step is a dispatch by Do
Dispatched == dispatch'.call # NoCall /\ dispatch' # dispatch

\* C8: a GET without the quorum flag and a HEAD are executed against the
\* store and return at once; the step changes neither the Pending-Call Table
\* nor the channels nor what is proposed, committed or applied, whatever the
\* flags are.
C8_RoutingPurity ==
    [][(/\ Dispatched
        /\ \/ dispatch'.arg.Method = "GET" /\ ~dispatch'.arg.Quorum
           \/ dispatch'.arg.Method = "HEAD") =>
            /\ dispatch'.storeOp \in {"Get", "Watch"}
            /\ via'[dispatch'.call] = "store"
            /\ pc'[dispatch'.call] = "done"
            /\ UNCHANGED <<w, ch, sent, proposed, committed, applied, notified, fault>>]_vars

\* a waiting GET was executed against the store while another call had a slot
C8_Witness ==
    /\ dispatch.handler = "Get"
    /\ dispatch.arg.Wait
    /\ dispatch.storeOp = "Watch"
    /\ w # {}

ExpectedHandler(method, quorum) ==
    CASE method = "POST" -> "Post"
      [] method = "PUT" -> "Put"
      [] method = "DELETE" -> "Delete"
      [] method = "QGET" \/ (method = "GET" /\ quorum) -> "QGet"
      [] method = "GET" /\ ~quorum -> "Get"
      [] method = "HEAD" -> "Head"
      [] OTHER -> "none"

\* C10: every dispatch invokes the handler its method and quorum flag name: a
\* GET with Quorum is rewritten to QGET; POST, PUT, DELETE and QGET go into
\* processRaftRequest; GET without Quorum and HEAD go to the store; and for a
\* method other than GET the method is left as it was.
C10_RoutingTotal ==
    dispatch.call # NoCall =>
        LET a == dispatch.arg
            h == ExpectedHandler(a.Method, a.Quorum)
        IN  /\ dispatch.handler = h
            /\ dispatch.Method = (IF a.Method = "GET" /\ a.Quorum THEN "QGET" ELSE a.Method)
            /\ h \in {"Post", "Put", "Delete", "QGet"} <=>
                   via[dispatch.call] = "processRaftRequest"
            /\ h \in {"Get", "Head"} <=> via[dispatch.call] = "store"
            /\ h = "none" <=> via[dispatch.call] = "unknown"

\* a GET with Quorum went into processRaftRequest as a QGET and got a slot
C10_Witness ==
    /\ dispatch.call # NoCall
    /\ dispatch.arg.Method = "GET"
    /\ dispatch.arg.Quorum
    /\ dispatch.Method = "QGET"
    /\ dispatch.handler = "QGet"
    /\ dispatch.ID \in w

(* ------------------------ claims: package verify ----------------------- *)
\* Verify ran: it was called, or a wrapper called it because ETCD_VERIFY is "all"
VerifyRan ==
    /\ ver.entry # "none"
    /\ ver.entry = "Verify" \/ ver.in.env = "all"

\* the WAL was read without an error and has a valid snapshot entry
WalValid ==
    /\ ver.in.scan.err = NilError
    /\ ver.in.scan.snaps # <<>>
    /\ ver.in.walVerify.err = NilError

\* the markers of the run: I, its term, C, T and S
MarkerI == ver.in.index
MarkerTerm == ver.in.term
MarkerC == ver.in.walVerify.hardstate.Commit
MarkerT == ver.in.walVerify.hardstate.Term
MarkerS == ver.in.scan.snaps[Len(ver.in.scan.snaps)].Index

\* the three invariants, each as its mode asks for it
IndexViolated ==
    IF ver.in.ExactIndex THEN MarkerI # MarkerC ELSE MarkerI > MarkerC
TermViolated ==
    IF ver.in.ExactIndex THEN MarkerTerm # MarkerT ELSE MarkerTerm > MarkerT
SnapshotViolated == MarkerI < MarkerS

\* the invariant an error names
BoundOf(e) ==
    CASE e.kind \in {"ConsistentIndex expected == commit",
                     "ConsistentIndex must be <= commit"} -> "index"
      [] e.kind \in {"Term expected == term", "Term must be <= term"} -> "term"
      [] e.kind = "ConsistentIndex must be >= last snapshot index" -> "snapshot"
      [] OTHER -> "none"

\* the first of the invariants that is violated, in the order index, term,
\* snapshot
FirstViolated ==
    IF IndexViolated THEN "index"
    ELSE IF TermViolated THEN "term"
    ELSE IF SnapshotViolated THEN "snapshot"
    ELSE "none"

\* C11 as stated: when the WAL is valid, Verify succeeds iff S <= I <= C and,
\* in exact mode, I = C and the terms are equal, whatever the terms are
\* otherwise.
C11_IffIndexBounds ==
    VerifyRan /\ WalValid =>
        (ver.out.ret = NilError <=>
            /\ MarkerS <= MarkerI
            /\ MarkerI <= MarkerC
            /\ ver.in.ExactIndex => MarkerI = MarkerC /\ MarkerTerm = MarkerT)

\* C11 as amended: when the WAL is valid, Verify succeeds iff S <= I <= C and
\* the backend's term is at most the hard state's term and, in exact mode,
\* I = C and the terms are equal; otherwise it returns an error that names the
\* first violated bound.
C11_IffIndexAndTermBounds ==
    VerifyRan /\ WalValid =>
        /\ ~ver.out.panic
        /\ ver.out.ret = NilError <=>
              /\ MarkerS <= MarkerI
              /\ MarkerI <= MarkerC
              /\ MarkerTerm <= MarkerT
              /\ ver.in.ExactIndex => MarkerI = MarkerC /\ MarkerTerm = MarkerT
        /\ BoundOf(ver.out.ret) = FirstViolated

\* outside exact mode the indexes are within their bounds and the backend's
\* term is above the hard state's: Verify returned the error of the term
C11_Witness ==
    /\ VerifyRan /\ WalValid
    /\ ~ver.in.ExactIndex
    /\ MarkerS <= MarkerI /\ MarkerI <= MarkerC
    /\ MarkerTerm > MarkerT
    /\ ver.out.ret.kind = "Term must be <= term"

\* a call that came back with a nil error
Accepted(out) == ~out.panic /\ out.ret = NilError

\* C12: whenever Verify returns nil, S <= I <= C and the backend's term is at
\* most the hard state's, and in exact mode I = C and the terms are equal; so
\* whatever Verify accepts in exact mode it accepts outside it.
C12_Soundness ==
    VerifyRan =>
        /\ Accepted(ver.out) =>
              /\ WalValid
              /\ MarkerS <= MarkerI
              /\ MarkerI <= MarkerC
              /\ MarkerTerm <= MarkerT
              /\ ver.in.ExactIndex => MarkerI = MarkerC /\ MarkerTerm = MarkerT
        /\ Accepted(Verify([ver.in EXCEPT !.ExactIndex = TRUE])) =>
              Accepted(Verify([ver.in EXCEPT !.ExactIndex = FALSE]))

\* Verify returned nil in exact mode, with the markers above the snapshot
C12_Witness ==
    /\ VerifyRan
    /\ ver.in.ExactIndex
    /\ Accepted(ver.out)
    /\ ver.out.compared
    /\ MarkerI = MarkerC /\ MarkerTerm = MarkerT
    /\ MarkerI > MarkerS

\* C13: of several violated invariants only the first is reported, in the
\* order index against commit (equality in exact mode, <= otherwise), term
\* against the hard state's term (equality in exact mode, <= otherwise),
\* index against the snapshot index; the error carries both values compared.
\* Exact mode with index 10 and commit 12 reports the index (10, 12); index 8
\* under snapshot index 9 reports the snapshot (8, 9) when the first two hold.
C13_FirstViolationReported ==
    /\ VerifyRan /\ WalValid =>
          /\ IndexViolated =>
                ver.out.ret =
                    [kind |-> IF ver.in.ExactIndex
                              THEN "ConsistentIndex expected == commit"
                              ELSE "ConsistentIndex must be <= commit",
                     got |-> MarkerI, want |-> MarkerC]
          /\ ~IndexViolated /\ TermViolated =>
                ver.out.ret =
                    [kind |-> IF ver.in.ExactIndex
                              THEN "Term expected == term"
                              ELSE "Term must be <= term",
                     got |-> MarkerTerm, want |-> MarkerT]
          /\ ~IndexViolated /\ ~TermViolated /\ SnapshotViolated =>
                ver.out.ret =
                    [kind |-> "ConsistentIndex must be >= last snapshot index",
                     got |-> MarkerI, want |-> MarkerS]
    /\ \A s \in Indexes :
          validateConsistentIndex(TRUE, 10, 2, [Commit |-> 12, Term |-> 2],
                                  [Index |-> s])
              = [kind |-> "ConsistentIndex expected == commit", got |-> 10, want |-> 12]
    /\ \A exact \in BOOLEAN, t \in Terms :
          validateConsistentIndex(exact, 8, t, [Commit |-> 8, Term |-> t],
                                  [Index |-> 9])
              = [kind |-> "ConsistentIndex must be >= last snapshot index",
                 got |-> 8, want |-> 9]

\* all three invariants are violated at once and the index is what is reported
C13_Witness ==
    /\ VerifyRan /\ WalValid
    /\ IndexViolated /\ TermViolated /\ SnapshotViolated
    /\ BoundOf(ver.out.ret) = "index"
    /\ ver.out.ret.got = MarkerI
    /\ ver.out.ret.want = MarkerC

\* the messages a call logged
Logged(msg) == \E i \in DOMAIN ver.out.log : ver.out.log[i] = msg

\* C14: a call of Verify always ends by returning, it never panics and never
\* exits the process, whatever the WAL and the backend hold; when the WAL has
\* no valid snapshot entry it returns an error and compares no marker.
C14_VerifyAlwaysReturns ==
    ver.entry = "Verify" =>
        /\ ~ver.out.panic
        /\ ver.exit = "returned"
        /\ ver.in.scan.snaps = <<>> =>
              /\ ver.out.ret # NilError
              /\ ~ver.out.compared

\* C17: VerifyIfEnabled runs Verify and returns its result only when
\* ETCD_VERIFY is "all", and otherwise returns nil without reading the WAL or
\* the backend; MustVerifyIfEnabled ends the process iff VerifyIfEnabled
\* returns an error, and otherwise returns.
C17_ToggleAndFatal ==
    /\ ver.entry \in {"VerifyIfEnabled", "MustVerifyIfEnabled"} =>
          IF ver.in.env = "all"
          THEN /\ ver.out.ret = Verify(ver.in).ret
               /\ ver.out.scanned
          ELSE /\ Accepted(ver.out)
               /\ ~ver.out.scanned
               /\ ~ver.out.opened
               /\ ~ver.out.compared
    /\ ver.entry = "MustVerifyIfEnabled" =>
          LET r == VerifyIfEnabled(ver.in)
          IN  /\ ver.exit # "returned" <=> ~r.panic /\ r.ret # NilError
              /\ Accepted(r) => ver.exit = "returned"
              /\ ver.exit \in {"returned", "fatal"}

\* C18: what Verify logs agrees with what it returns: it logs "verification of
\* persisted state successful" iff it returns nil, and logs the failure
\* whenever it returns an error, be it of the WAL or of a violated invariant.
C18_LogAgreesWithResult ==
    VerifyRan =>
        /\ Logged("verification of persisted state successful") <=> Accepted(ver.out)
        /\ ~ver.out.panic /\ ver.out.ret # NilError =>
              Logged("verification of persisted state failed")

(* -------------------------- claims: liveness --------------------------- *)
\* the call c is in processRaftRequest and has not returned
Waiting(c) == pc[c] \in {"propose", "select"}

\* C15: a call whose context is done, or that waits while the server is
\* stopping, returns, committed or not; and once the server is stopping no
\* call is left waiting, however many there were.
C15_CancelAndStopUnblock ==
    /\ \A c \in Calls :
          (Waiting(c) /\ (ctxErr[c] # "nil" \/ stopping)) ~> Returned(c)
    /\ stopping ~> (\A c \in Calls : ~Waiting(c))

\* every call came back with ErrStopped, none of them committed
C15_Witness ==
    \A c \in Calls :
        /\ Returned(c)
        /\ hret[c].err = "ErrStopped"
        /\ reqID[c] \in w
        /\ \A i \in DOMAIN committed : committed[i] # reqID[c]

\* C16: the apply task is never held up by a caller: its Trigger can be made
\* in every state, whether the caller waits, has retired its slot or has left
\* it in the table; so the apply task comes to every committed entry, and it
\* takes them one by one in the order of commit.
C16_ApplyNeverBlocked ==
    /\ [](applied < Len(committed) => ENABLED Apply)
    /\ \A k \in 1 .. MaxCalls : (Len(committed) >= k) ~> (applied >= k)
    /\ [][applied' # applied =>
             /\ applied' = applied + 1
             /\ committed' = committed
             /\ notified'[committed[applied']] \in ApplyResults
             /\ \A i \in 1 .. applied : notified[committed[i]] \in ApplyResults]_vars

\* the apply task triggered the result of a call that had returned by the
\* stopping case and left its slot in the table: the result lies unread
C16_Witness ==
    \E c \in Calls :
        /\ Returned(c)
        /\ hret[c].err = "ErrStopped"
        /\ notified[reqID[c]] \in ApplyResults
        /\ ch[reqID[c]] = <<notified[reqID[c]]>>
        /\ reqID[c] \notin w

(* ------------------------ claims: ids and slots ------------------------ *)
\* C19: every call of Do takes its id from the generator before it is
\* dispatched, so no two calls hold the same id; Register is never called
\* with an id that is in the table, and a slot is only ever made for an id
\* that no call has held, in the table, retired or abandoned.
C19_FreshIDs ==
    /\ [](\A c \in Calls :
            /\ pc[c] # "idle" => reqID[c] \in IDs /\ reqID[c] <= reqIDGen
            /\ pc[c] # "panicked"
            /\ \A d \in Calls : c # d /\ reqID[c] # NoID => reqID[c] # reqID[d])
    /\ [][/\ ~fault'
          /\ \A id \in IDs :
                id \in w' /\ id \notin w =>
                    /\ sent[id] = <<>>
                    /\ notified[id] = NilValue
                    /\ \A c \in Calls : reqID[c] # id
                    /\ dispatch'.ID = id
                    /\ id = reqIDGen']_vars

\* a call has its slot in the table, under a later id, after an earlier call
\* retired its own by cancellation
C19_Witness ==
    \E c, d \in Calls :
        /\ Returned(c)
        /\ sent[reqID[c]] = <<NilValue>>
        /\ reqID[c] \notin w
        /\ pc[d] = "select"
        /\ reqID[d] \in w
        /\ reqID[d] > reqID[c]

\* C20: the slot is in the table before the command is handed to raft, so
\* when the apply task triggers the command it finds the slot unless the
\* caller has retired it itself; the result of a committed command lies on
\* the channel of a caller that still waits.
C20_NoLostWakeup ==
    /\ [](\A c \in Calls :
            /\ pc[c] = "propose" =>
                  /\ reqID[c] \in w
                  /\ reqID[c] \notin proposed
                  /\ \A i \in DOMAIN committed : committed[i] # reqID[c]
            /\ pc[c] = "select" /\ AppliedAndTriggered(reqID[c]) =>
                  ch[reqID[c]] = <<notified[reqID[c]]>>)
    /\ [][\A c \in Calls :
            reqID[c] # NoID /\ NotifierTriggers(reqID[c]) =>
                /\ Waiting(c) =>
                      /\ reqID[c] \in w
                      /\ ch'[reqID[c]] = <<notified'[reqID[c]]>>
                /\ reqID[c] \notin w =>
                      /\ Returned(c)
                      /\ OutcomeCtx(c)
                      /\ sent[reqID[c]] = <<NilValue>>]_vars

\* the result lies on the channel of a call that still waits, although its
\* context is done and the server is stopping
C20_Witness ==
    \E c \in Calls :
        /\ pc[c] = "select"
        /\ AppliedAndTriggered(reqID[c])
        /\ ch[reqID[c]] = <<notified[reqID[c]]>>
        /\ ctxErr[c] # "nil"
        /\ stopping

(* ---------------------- claims: failure of Marshal --------------------- *)
\* the call c came back with the error of Marshal
MarshalFailed(c) == Returned(c) /\ hret[c].err = "ErrMarshal"

\* C21: when Marshal fails, processRaftRequest returns an empty Response with
\* that error before it registers anything: the step leaves the Pending-Call
\* Table, the channels and the proposed and committed entries as they were,
\* the call goes from Do straight to its return without ever waiting, and its
\* id never gets a slot or a proposal afterwards.
C21_MarshalFailureBeforeRegister ==
    /\ [][\A c \in Calls :
            pc'[c] = "done" /\ hret'[c].err = "ErrMarshal" /\ pc[c] # "done" =>
                /\ pc[c] = "idle"
                /\ via'[c] = "processRaftRequest"
                /\ hret'[c].resp = EmptyResponse
                /\ w' = w /\ ch' = ch /\ sent' = sent
                /\ proposed' = proposed /\ committed' = committed
                /\ fault' = fault]_vars
    /\ [](\A c \in Calls :
            MarshalFailed(c) =>
                /\ reqID[c] \notin w
                /\ sent[reqID[c]] = <<>>
                /\ ch[reqID[c]] = <<>>
                /\ reqID[c] \notin proposed
                /\ \A i \in DOMAIN committed : committed[i] # reqID[c])

\* a call came back with the error of Marshal while an earlier call waits
\* with its slot in the table and its entry proposed
C21_Witness ==
    \E c, d \in Calls :
        /\ MarshalFailed(c)
        /\ pc[d] = "select"
        /\ reqID[d] \in w
        /\ reqID[d] \in proposed

(* ------------------- claims: the value a caller reads ------------------ *)
\* the value last put on the channel of id by the step
PutOnChannel(id) == sent'[id][Len(sent'[id])]

\* C22: what a caller reads from its channel is a Response the apply task
\* triggered, never the nil of a retirement: nil is put on the channel of an
\* id only by the call that holds the id, in its cancellation case and in the
\* step in which it returns; so the channel of a waiting call is empty or
\* holds such a Response, and x.(Response) never panics.
C22_NeverReadsNil ==
    /\ [](\A c \in Calls :
            /\ pc[c] # "panicked"
            /\ pc[c] = "select" =>
                  \/ ch[reqID[c]] = <<>>
                  \/ /\ Len(ch[reqID[c]]) = 1
                     /\ ch[reqID[c]][1] \in ApplyResults
                     /\ ch[reqID[c]][1] = notified[reqID[c]]
            /\ Returned(c) => hret[c].resp # NilValue)
    /\ [][\A id \in IDs :
            sent'[id] # sent[id] /\ PutOnChannel(id) = NilValue =>
                \E c \in Calls :
                    /\ reqID[c] = id
                    /\ pc[c] = "select"
                    /\ ctxErr[c] # "nil"
                    /\ pc'[c] = "done"
                    /\ hret'[c].resp = EmptyResponse
                    /\ applied' = applied]_vars

\* one call retired its slot by cancellation and the nil lies unread on its
\* channel; another call read the Response the apply task triggered
C22_Witness ==
    \E c, d \in Calls :
        /\ Returned(c)
        /\ OutcomeCtx(c)
        /\ ch[reqID[c]] = <<NilValue>>
        /\ Returned(d)
        /\ OutcomeDelivered(d)
        /\ hret[d].resp \in ApplyResults

(* ------------------------ claims: package v3rpc ------------------------ *)
\* the errors of the request pipeline
PipelineErrors ==
    {"etcdserver.ErrStopped", "etcdserver.ErrTimeout",
     "etcdserver.ErrTimeoutDueToLeaderFail",
     "etcdserver.ErrTimeoutDueToConnectionLost", "etcdserver.ErrLeaderChanged"}

\* the error given is context.Canceled or context.DeadlineExceeded itself
IsContextError(err) ==
    err.form = "sentinel" /\ err.name \in {"context.Canceled", "context.DeadlineExceeded"}

\* the error given is a key of the table
InTable(err) == err.form = "sentinel" /\ err.name \in TableKeys

\* C23: togRPCError gives a result for every error: context.Canceled and
\* context.DeadlineExceeded come back as they are, not as their entries; any
\* other key of the table comes back as its entry; an error that is no key
\* comes back as a status of code Unknown with its text. ErrStopped,
\* ErrTimeout, ErrTimeoutDueToLeaderFail, ErrTimeoutDueToConnectionLost and
\* ErrLeaderChanged come back as five different entries.
C23_TotalMapping ==
    /\ grpc.called =>
          /\ IsContextError(grpc.err) =>
                /\ grpc.out = grpc.err
                /\ grpc.out \notin {[wire |-> "rpctypes.ErrGRPCCanceled"],
                                    [wire |-> "rpctypes.ErrGRPCDeadlineExceeded"]}
          /\ InTable(grpc.err) /\ ~IsContextError(grpc.err) =>
                \E p \in toGRPCErrorMap :
                    p[1] = grpc.err.name /\ grpc.out = [wire |-> p[2]]
          /\ ~InTable(grpc.err) =>
                grpc.out = [code |-> "Unknown", msg |-> ErrorText(grpc.err)]
    /\ \A a, b \in PipelineErrors :
          /\ DOMAIN togRPCError(Sentinel(a)) = {"wire"}
          /\ a # b => togRPCError(Sentinel(a)) # togRPCError(Sentinel(b))
    /\ togRPCError(Sentinel("etcdserver.ErrStopped")) = [wire |-> "rpctypes.ErrGRPCStopped"]
    /\ togRPCError(Sentinel("etcdserver.ErrTimeout")) = [wire |-> "rpctypes.ErrGRPCTimeout"]
    /\ togRPCError(Sentinel("etcdserver.ErrLeaderChanged"))
           = [wire |-> "rpctypes.ErrGRPCLeaderChanged"]

\* togRPCError was given context.DeadlineExceeded and gave it back
C23_Witness ==
    /\ grpc.called
    /\ grpc.err = Sentinel("context.DeadlineExceeded")
    /\ grpc.out = Sentinel("context.DeadlineExceeded")

====
